---- MODULE Spec2Model ----
(***************************************************************************)
(* A model of generate_maze.py: a streaming variant of Eller's algorithm.  *)
(* The program keeps one Row (cells + a dict of sets), mutates it with the  *)
(* wall policies, prints it and derives the next row from it, until a       *)
(* KeyboardInterrupt arrives.  The interrupt is asynchronous: Python can    *)
(* raise it between any two statements, so every statement that changes the *)
(* row is a step of its own and the interrupt can fall between any two.     *)
(* Cells are named by their column 1..num_cells (the source uses object     *)
(* identity); set keys are the source's integers, starting at 0.            *)
(***************************************************************************)
EXTENDS Integers, Sequences, FiniteSets, TLC

\* largest column count explored (num_cells is fixed by the terminal width)
MaxCells == 4
\* largest number of cells of a printed maze (rows times columns): a run that
\* cannot stream another row within it can only be cancelled
MaxMazeCells == 12
\* largest set identifier handed to the verbose middle band on its own
MaxSetKey == 999

\* ---------------------------------------------------------------- characters
\* box drawing characters, by the names the source gives them
h == "h"
v == "v"
tlc == "tlc"
trc == "trc"
blc == "blc"
brc == "brc"
vr == "vr"
vl == "vl"
hd == "hd"
hu == "hu"
hv == "hv"
sp == " "
nl == "\n"
cr == "\r"

Rep(s, n) == [j \in 1..n |-> s]

RECURSIVE Times(_, _)
Times(s, n) == IF n <= 0 THEN << >> ELSE s \o Times(s, n - 1)

DigitChar(d) == <<"0", "1", "2", "3", "4", "5", "6", "7", "8", "9">>[d + 1]

\* str(int) as print() writes it
RECURSIVE Digits(_)
Digits(n) == IF n < 10 THEN <<DigitChar(n)>> ELSE Digits(n \div 10) \o <<DigitChar(n % 10)>>

\* ---------------------------------------------------------------- cells, rows
Cell(key) == [set_key |-> key, walls |-> {"r", "d"}]

EmptyRow == [cells |-> << >>, sets |-> << >>, order |-> << >>]

Keys(r) == DOMAIN r.sets

\* self.sets[key] = {c} for a key that is not in the dict yet
NewSet(r, key, c) ==
  [r EXCEPT !.sets = [x \in Keys(r) \cup {key} |-> IF x = key THEN {c} ELSE r.sets[x]],
            !.order = Append(@, key)]

\* del self.sets[key]
DelSet(r, key) ==
  [r EXCEPT !.sets = [x \in Keys(r) \ {key} |-> r.sets[x]],
            !.order = SelectSeq(@, LAMBDA x : x # key)]

RECURSIVE FromNumCellsUpTo(_)
FromNumCellsUpTo(n) ==
  IF n = 0 THEN EmptyRow
  ELSE LET r == FromNumCellsUpTo(n - 1)
       IN NewSet([r EXCEPT !.cells = Append(@, Cell(n - 1))], n - 1, n)

from_num_cells(n) == FromNumCellsUpTo(n)

\* ---------------------------------------------------------------- merge
\* a and b are the dict keys under which the two set objects are stored
MergePop(r, a, c) == [r EXCEPT !.sets[a] = @ \ {c}]
MergeAdd(r, a, c) == [r EXCEPT !.sets[a] = @ \cup {c}]
\* merge without a.update(b)
MergeUpdate_Skipped(r, a, b) == r
MergeUpdate(r, a, b) == [r EXCEPT !.sets[a] = @ \cup r.sets[b]]
MergeSetKey(r, c, key) == [r EXCEPT !.cells[c].set_key = key]
MergeClear(r, b) == [r EXCEPT !.sets[b] = {}]

\* merge without the loop "for c in b: c.set_key = a_set_key"
merge_KeepsKeys(r, a, b, c) ==
  MergeClear(MergeUpdate(MergeAdd(MergePop(r, a, c), a, c), a, b), b)

\* the whole of merge(a, b) when a.pop() returns cell c
merge(r, a, b, c) ==
  LET key == r.cells[c].set_key
      r1 == MergeUpdate(MergeAdd(MergePop(r, a, c), a, c), a, b)
      r2 == [r1 EXCEPT !.cells = [x \in DOMAIN r1.cells |->
                 IF x \in r1.sets[b] THEN [r1.cells[x] EXCEPT !.set_key = key]
                 ELSE r1.cells[x]]]
  IN MergeClear(r2, b)

\* ---------------------------------------------------------------- from_prev_row
\* the search with "if" where the source has "while": a single increment
LowUnusedKey_Once(used_keys, low_unused_key) ==
  IF low_unused_key \in used_keys THEN low_unused_key + 1 ELSE low_unused_key

RECURSIVE LowUnusedKey(_, _)
LowUnusedKey(used_keys, low_unused_key) ==
  IF low_unused_key \in used_keys THEN LowUnusedKey(used_keys, low_unused_key + 1)
  ELSE low_unused_key

\* from_prev_row with used_keys taken from the new row alone
FromPrevRowCell_OwnKeysOnly(prev_row, r, c) ==
  LET above_cell == prev_row.cells[c]
  IN IF "d" \notin above_cell.walls
     THEN LET r1 == [r EXCEPT !.cells = Append(@, Cell(above_cell.set_key))]
          IN IF above_cell.set_key \in Keys(r)
             THEN [r1 EXCEPT !.sets[above_cell.set_key] = @ \cup {c}]
             ELSE NewSet(r1, above_cell.set_key, c)
     ELSE LET key == LowUnusedKey(Keys(r), 0)
          IN NewSet([r EXCEPT !.cells = Append(@, Cell(key))], key, c)

\* one iteration of the loop of from_prev_row, for column c
FromPrevRowCell(prev_row, r, c) ==
  LET above_cell == prev_row.cells[c]
  IN IF "d" \notin above_cell.walls
     THEN LET r1 == [r EXCEPT !.cells = Append(@, Cell(above_cell.set_key))]
          IN IF above_cell.set_key \in Keys(r)
             THEN [r1 EXCEPT !.sets[above_cell.set_key] = @ \cup {c}]
             ELSE NewSet(r1, above_cell.set_key, c)
     ELSE LET key == LowUnusedKey(Keys(prev_row) \cup Keys(r), 0)
          IN NewSet([r EXCEPT !.cells = Append(@, Cell(key))], key, c)

\* ---------------------------------------------------------------- printing
print_very_first_third(n) ==
  <<tlc>> \o Rep(h, 3) \o Times(<<hd>> \o Rep(h, 3), n - 1) \o <<trc, nl>>

print_very_last_third(n) ==
  <<blc>> \o Rep(h, 3) \o Times(<<hu>> \o Rep(h, 3), n - 1) \o <<brc, nl>>

MiddleCell(c, verb) ==
  IF verb
  THEN IF "r" \in c.walls
       THEN IF c.set_key < 10 THEN <<sp>> \o Digits(c.set_key) \o <<sp, v>>
            ELSE IF c.set_key < 100 THEN <<sp>> \o Digits(c.set_key) \o <<v>>
            ELSE Digits(c.set_key) \o <<v>>
       ELSE IF c.set_key < 10 THEN <<sp>> \o Digits(c.set_key) \o <<sp, sp>>
            ELSE IF c.set_key < 100 THEN <<sp>> \o Digits(c.set_key) \o <<sp>>
            ELSE Digits(c.set_key)
  ELSE IF "r" \in c.walls THEN Rep(sp, 3) \o <<v>> ELSE Rep(sp, 4)

RECURSIVE MiddleCells(_, _, _)
MiddleCells(cells, j, verb) ==
  IF j > Len(cells) THEN << >>
  ELSE MiddleCell(cells[j], verb) \o MiddleCells(cells, j + 1, verb)

print_middle_third(r, verb) == <<v>> \o MiddleCells(r.cells, 1, verb) \o <<nl>>

LastCell(c, junction) ==
  IF "d" \in c.walls THEN Rep(h, 3) \o <<junction>> ELSE Rep(sp, 3) \o <<junction>>

RECURSIVE LastCells(_, _)
LastCells(cells, j) ==
  IF j > Len(cells) THEN << >>
  ELSE LastCell(cells[j], IF j = Len(cells) THEN vl ELSE hv) \o LastCells(cells, j + 1)

print_last_third(r) == <<vr>> \o LastCells(r.cells, 1) \o <<nl>>

\* ---------------------------------------------------------------- state
VARIABLES
  num_cells,          \* N, fixed once from the terminal width
  verbose,            \* args.verbose
  pc,                 \* the statement the program is about to execute
  row,                \* the global row
  new_row,            \* the row under construction inside from_prev_row
  i,                  \* loop position of the pair loops and of from_prev_row
  a, b, k,            \* process_right_walls: cell_set, next_cell_set (as dict keys) and k
  a_cell, a_set_key,  \* locals of merge
  todo,               \* members of b the loop "for c in b" has not visited yet
  si,                 \* position of process_down_walls in self.sets.values()
  tmp_set, down_walls_removed, cell,   \* locals of process_down_walls
  out,                \* every character written to standard output
  exit_code,          \* -1 while running, then the process's exit status
  cancelled_at,       \* where the handled KeyboardInterrupt arrived (see CancelPoint)
  last_row_calls,     \* number of invocations of process_last_row
  rows_made,          \* number of completed from_prev_row calls
  drew_yes,           \* some evaluation of random.random() < 0.5 was True
  drew_no             \* some evaluation of random.random() < 0.5 was False

vars == <<num_cells, verbose, pc, row, new_row, i, a, b, k, a_cell, a_set_key, todo,
          si, tmp_set, down_walls_removed, cell, out, exit_code, cancelled_at,
          last_row_calls, rows_made, drew_yes, drew_no>>

merge_locals == <<a, b, k, a_cell, a_set_key, todo>>
down_locals == <<si, tmp_set, down_walls_removed, cell>>
draws == <<drew_yes, drew_no>>
run_state == <<exit_code, cancelled_at, last_row_calls, rows_made, draws>>
config == <<num_cells, verbose>>

\* statements inside the try block of the main loop
TryPcs == {"loop", "process_right_walls", "merge_pop", "merge_add", "merge_update",
           "merge_keys", "merge_clear", "del_set", "process_down_walls", "pdw_pop",
           "pdw_wall", "pdw_update", "print_middle_third", "print_last_third",
           "from_prev_row", "sleep"}

\* statements of the except clause
HandlerPcs == {"handler", "process_last_row", "final_middle_third",
               "print_very_last_third", "sys_exit"}

\* statements before the loop
StartPcs == {"from_num_cells", "print_very_first_third"}

\* the points between two generation steps
BoundaryPcs == {"loop", "sleep"}

\* statements in the middle of a row operation or of the rendering of a row
MidOperationPcs == {"merge_pop", "merge_add", "merge_update", "merge_keys", "merge_clear",
                    "del_set", "pdw_pop", "pdw_wall", "pdw_update", "print_last_third"}

Init ==
  /\ num_cells \in 1..MaxCells
  /\ verbose \in BOOLEAN
  /\ pc = "from_num_cells"
  /\ row = EmptyRow
  /\ new_row = EmptyRow
  /\ i = 0
  /\ a = 0 /\ b = 0 /\ k = 0 /\ a_cell = 0 /\ a_set_key = 0 /\ todo = {}
  /\ si = 0 /\ tmp_set = {} /\ down_walls_removed = 0 /\ cell = 0
  /\ out = << >>
  /\ exit_code = -1
  /\ cancelled_at = "none"
  /\ last_row_calls = 0
  /\ rows_made = 0
  /\ drew_yes = FALSE
  /\ drew_no = FALSE

\* the process ends with the given status: its memory is gone, what it wrote stays
Exit(status) ==
  /\ pc' = "exited"
  /\ exit_code' = status
  /\ row' = EmptyRow
  /\ new_row' = EmptyRow
  /\ i' = 0
  /\ a' = 0 /\ b' = 0 /\ k' = 0 /\ a_cell' = 0 /\ a_set_key' = 0 /\ todo' = {}
  /\ si' = 0 /\ tmp_set' = {} /\ down_walls_removed' = 0 /\ cell' = 0
  /\ UNCHANGED <<config, out, cancelled_at, last_row_calls, rows_made, draws>>

\* an exception other than KeyboardInterrupt (a KeyError): nothing catches it
Raise == Exit(1)

RemoveWall(r, c, w) == [r EXCEPT !.cells[c].walls = @ \ {w}]

\* what is not touched by a statement that evaluates random.random() < 0.5
no_draw_state == <<exit_code, cancelled_at, last_row_calls, rows_made>>

\* one evaluation of random.random() < 0.5 gave the value yes
Drew(yes) ==
  /\ drew_yes' = (drew_yes \/ yes)
  /\ drew_no' = (drew_no \/ ~yes)

\* ---------------------------------------------------------------- start
FromNumCells ==
  /\ pc = "from_num_cells"
  /\ row' = from_num_cells(num_cells)
  /\ pc' = "print_very_first_third"
  /\ UNCHANGED <<config, new_row, i, merge_locals, down_locals, out, run_state>>

PrintVeryFirstThird ==
  /\ pc = "print_very_first_third"
  /\ out' = out \o print_very_first_third(num_cells)
  /\ pc' = "loop"
  /\ UNCHANGED <<config, row, new_row, i, merge_locals, down_locals, run_state>>

\* while True: try: -- the next generation step starts (the maze will have the
\* rows made so far, the row this step makes and the one finalization closes)
EnterTry ==
  /\ pc = "loop"
  /\ (rows_made + 2) * num_cells <= MaxMazeCells
  /\ pc' = "process_right_walls"
  /\ i' = 1
  /\ UNCHANGED <<config, row, new_row, merge_locals, down_locals, out, run_state>>

\* ---------------------------------------------------------------- process_right_walls
\* process_right_walls without the test "next_cell not in cell_set"
ProcessRightWallsPair_NoTest ==
  /\ pc = "process_right_walls"
  /\ IF i >= num_cells
     THEN /\ pc' = "process_down_walls"
          /\ i' = 0
          /\ si' = 1
          /\ UNCHANGED <<config, row, new_row, merge_locals, tmp_set, down_walls_removed,
                         cell, out, run_state>>
     ELSE \E join \in BOOLEAN :
            IF join
            THEN /\ row' = RemoveWall(row, i, "r")
                 /\ a' = row.cells[i].set_key
                 /\ b' = row.cells[i + 1].set_key
                 /\ k' = row.cells[i + 1].set_key
                 /\ pc' = "merge_pop"
                 /\ Drew(TRUE)
                 /\ UNCHANGED <<config, new_row, i, a_cell, a_set_key, todo,
                                down_locals, out, no_draw_state>>
            ELSE /\ i' = i + 1
                 /\ Drew(FALSE)
                 /\ UNCHANGED <<config, pc, row, new_row, merge_locals,
                                down_locals, out, no_draw_state>>

\* one pair (cell, next_cell) of pairwise(self.cells): the two lookups, the
\* membership test, the random draw and, when it says so, cell.walls.remove('r')
ProcessRightWallsPair ==
  /\ pc = "process_right_walls"
  /\ IF i >= num_cells
     THEN /\ pc' = "process_down_walls"
          /\ i' = 0
          /\ si' = 1
          /\ UNCHANGED <<config, row, new_row, merge_locals, tmp_set, down_walls_removed,
                         cell, out, run_state>>
     ELSE LET cell_set == row.cells[i].set_key
              next_cell_set == row.cells[i + 1].set_key
          IN IF cell_set \notin Keys(row) \/ next_cell_set \notin Keys(row)
             THEN Raise
             ELSE IF (i + 1) \notin row.sets[cell_set]
                  THEN \E join \in BOOLEAN :
                         IF join
                         THEN IF "r" \notin row.cells[i].walls
                              THEN Raise
                              ELSE /\ row' = RemoveWall(row, i, "r")
                                   /\ a' = cell_set
                                   /\ b' = next_cell_set
                                   /\ k' = next_cell_set
                                   /\ pc' = "merge_pop"
                                   /\ Drew(TRUE)
                                   /\ UNCHANGED <<config, new_row, i, a_cell, a_set_key, todo,
                                                  down_locals, out, no_draw_state>>
                         ELSE /\ i' = i + 1
                              /\ Drew(FALSE)
                              /\ UNCHANGED <<config, pc, row, new_row, merge_locals,
                                             down_locals, out, no_draw_state>>
                  ELSE /\ i' = i + 1
                       /\ UNCHANGED <<config, pc, row, new_row, merge_locals,
                                      down_locals, out, run_state>>

\* a_cell = a.pop(); a_set_key = a_cell.set_key
MergePopStep ==
  /\ pc = "merge_pop"
  /\ IF row.sets[a] = {}
     THEN Raise
     ELSE \E c \in row.sets[a] :
            /\ a_cell' = c
            /\ a_set_key' = row.cells[c].set_key
            /\ row' = MergePop(row, a, c)
            /\ pc' = "merge_add"
            /\ UNCHANGED <<config, new_row, i, a, b, k, todo, down_locals, out, run_state>>

\* a.add(a_cell)
MergeAddStep ==
  /\ pc = "merge_add"
  /\ row' = MergeAdd(row, a, a_cell)
  /\ pc' = "merge_update"
  /\ UNCHANGED <<config, new_row, i, merge_locals, down_locals, out, run_state>>

\* a.update(b), and the iteration over b starts
MergeUpdateStep ==
  /\ pc = "merge_update"
  /\ row' = MergeUpdate(row, a, b)
  /\ todo' = row.sets[b]
  /\ pc' = "merge_keys"
  /\ UNCHANGED <<config, new_row, i, a, b, k, a_cell, a_set_key, down_locals, out, run_state>>

\* for c in b: c.set_key = a_set_key (a set is iterated in no particular order)
MergeKeyStep ==
  /\ pc = "merge_keys"
  /\ IF todo = {}
     THEN /\ pc' = "merge_clear"
          /\ UNCHANGED <<config, row, new_row, i, merge_locals, down_locals, out, run_state>>
     ELSE \E c \in todo :
            /\ row' = MergeSetKey(row, c, a_set_key)
            /\ todo' = todo \ {c}
            /\ UNCHANGED <<config, pc, new_row, i, a, b, k, a_cell, a_set_key, down_locals,
                           out, run_state>>

\* b.clear()
MergeClearStep ==
  /\ pc = "merge_clear"
  /\ row' = MergeClear(row, b)
  /\ pc' = "del_set"
  /\ UNCHANGED <<config, new_row, i, merge_locals, down_locals, out, run_state>>

\* del self.sets[k], and on to the next pair
DelSetStep ==
  /\ pc = "del_set"
  /\ IF k \notin Keys(row)
     THEN Raise
     ELSE /\ row' = DelSet(row, k)
          /\ i' = i + 1
          /\ a' = 0 /\ b' = 0 /\ k' = 0 /\ a_cell' = 0 /\ a_set_key' = 0 /\ todo' = {}
          /\ pc' = "process_right_walls"
          /\ UNCHANGED <<config, new_row, down_locals, out, run_state>>

\* ---------------------------------------------------------------- process_down_walls
\* for s in self.sets.values(): the next set, in the dict's insertion order
ProcessDownWallsNextSet ==
  /\ pc = "process_down_walls"
  /\ IF si > Len(row.order)
     THEN /\ pc' = "print_middle_third"
          /\ si' = 0
          /\ UNCHANGED <<tmp_set, down_walls_removed>>
     ELSE /\ pc' = "pdw_pop"
          /\ tmp_set' = {}
          /\ down_walls_removed' = 0
          /\ UNCHANGED si
  /\ UNCHANGED <<config, row, new_row, i, merge_locals, cell, out, run_state>>

\* cell = s.pop(); tmp_set.add(cell), inside the while loop or after it
ProcessDownWallsPop ==
  /\ pc = "pdw_pop"
  /\ LET s == row.sets[row.order[si]]
     IN IF s = {}
        THEN Raise
        ELSE \E c \in s :
               /\ cell' = c
               /\ row' = [row EXCEPT !.sets[row.order[si]] = @ \ {c}]
               /\ tmp_set' = tmp_set \cup {c}
               /\ pc' = "pdw_wall"
               /\ UNCHANGED <<config, new_row, i, merge_locals, si, down_walls_removed,
                              out, run_state>>

\* process_down_walls whose last member is never forced
ProcessDownWallsWall_NoForce ==
  /\ pc = "pdw_wall"
  /\ LET in_while == row.sets[row.order[si]] # {}
     IN \E open \in BOOLEAN :
          /\ row' = IF open THEN RemoveWall(row, cell, "d") ELSE row
          /\ down_walls_removed' =
               IF in_while /\ open THEN down_walls_removed + 1 ELSE down_walls_removed
          /\ pc' = IF in_while THEN "pdw_pop" ELSE "pdw_update"
          /\ Drew(open)
          /\ UNCHANGED <<config, new_row, i, merge_locals, si, tmp_set, cell,
                         out, no_draw_state>>

\* process_down_walls that counts every draw of the while loop as a removal
ProcessDownWallsWall_CountsDraws ==
  /\ pc = "pdw_wall"
  /\ LET in_while == row.sets[row.order[si]] # {}
     IN \E open \in BOOLEAN :
          LET remove == IF in_while THEN open ELSE (down_walls_removed = 0 \/ open)
          IN /\ row' = IF remove THEN RemoveWall(row, cell, "d") ELSE row
             /\ down_walls_removed' =
                  IF in_while THEN down_walls_removed + 1 ELSE down_walls_removed
             /\ pc' = IF in_while THEN "pdw_pop" ELSE "pdw_update"
             /\ IF in_while \/ down_walls_removed # 0
                THEN Drew(open)
                ELSE UNCHANGED draws
             /\ UNCHANGED <<config, new_row, i, merge_locals, si, tmp_set, cell,
                            out, no_draw_state>>

\* the random draw and cell.walls.remove('d'); the member popped last (the one
\* that left s empty) is forced when no DOWN wall of the set was removed before
ProcessDownWallsWall ==
  /\ pc = "pdw_wall"
  /\ LET in_while == row.sets[row.order[si]] # {}
     IN \E open \in BOOLEAN :
          LET remove == IF in_while THEN open ELSE (down_walls_removed = 0 \/ open)
          IN IF remove /\ "d" \notin row.cells[cell].walls
             THEN Raise
             ELSE /\ row' = IF remove THEN RemoveWall(row, cell, "d") ELSE row
                  /\ down_walls_removed' =
                       IF in_while /\ remove THEN down_walls_removed + 1
                       ELSE down_walls_removed
                  /\ pc' = IF in_while THEN "pdw_pop" ELSE "pdw_update"
                  /\ IF in_while \/ down_walls_removed # 0
                     THEN Drew(open)
                     ELSE UNCHANGED draws
                  /\ UNCHANGED <<config, new_row, i, merge_locals, si, tmp_set, cell,
                                 out, no_draw_state>>

\* s.update(tmp_set)
ProcessDownWallsUpdate ==
  /\ pc = "pdw_update"
  /\ row' = [row EXCEPT !.sets[row.order[si]] = @ \cup tmp_set]
  /\ si' = si + 1
  /\ tmp_set' = {}
  /\ down_walls_removed' = 0
  /\ cell' = 0
  /\ pc' = "process_down_walls"
  /\ UNCHANGED <<config, new_row, i, merge_locals, out, run_state>>

\* ---------------------------------------------------------------- printing, next row
PrintMiddleThird ==
  /\ pc = "print_middle_third"
  /\ out' = out \o print_middle_third(row, verbose)
  /\ pc' = "print_last_third"
  /\ UNCHANGED <<config, row, new_row, i, merge_locals, down_locals, run_state>>

PrintLastThird ==
  /\ pc = "print_last_third"
  /\ out' = out \o print_last_third(row)
  /\ pc' = "from_prev_row"
  /\ i' = 1
  /\ new_row' = EmptyRow
  /\ UNCHANGED <<config, row, merge_locals, down_locals, run_state>>

\* one column of from_prev_row
FromPrevRowStep ==
  /\ pc = "from_prev_row"
  /\ i <= Len(row.cells)
  /\ new_row' = FromPrevRowCell(row, new_row, i)
  /\ i' = i + 1
  /\ UNCHANGED <<config, pc, row, merge_locals, down_locals, out, run_state>>

\* return row, and the assignment row = Row.from_prev_row(row)
FromPrevRowReturn ==
  /\ pc = "from_prev_row"
  /\ i > Len(row.cells)
  /\ row' = new_row
  /\ new_row' = EmptyRow
  /\ i' = 0
  /\ rows_made' = rows_made + 1
  /\ pc' = "sleep"
  /\ UNCHANGED <<config, merge_locals, down_locals, out, exit_code, cancelled_at,
                 last_row_calls, draws>>

Sleep ==
  /\ pc = "sleep"
  /\ pc' = "loop"
  /\ UNCHANGED <<config, row, new_row, i, merge_locals, down_locals, out, run_state>>

\* ---------------------------------------------------------------- cancellation
\* where in the generation step the program is: at a boundary between two
\* steps, inside an operation that has started and not finished, or between
\* two operations of one step
CancelPoint ==
  IF pc \in BoundaryPcs THEN "boundary"
  ELSE IF \/ pc \in MidOperationPcs
          \/ pc = "process_right_walls" /\ 1 < i /\ i < num_cells
          \/ pc = "process_down_walls" /\ 1 < si /\ si <= Len(row.order)
          \/ pc = "from_prev_row" /\ 1 < i
       THEN "mid_operation"
       ELSE "mid_step"

\* KeyboardInterrupt raised inside the try block: control moves to the except
\* clause, whatever statement was about to run; the frames' locals are gone
KeyboardInterrupt ==
  /\ pc \in TryPcs
  /\ cancelled_at' = CancelPoint
  /\ pc' = "handler"
  /\ new_row' = EmptyRow
  /\ i' = 0
  /\ a' = 0 /\ b' = 0 /\ k' = 0 /\ a_cell' = 0 /\ a_set_key' = 0 /\ todo' = {}
  /\ si' = 0 /\ tmp_set' = {} /\ down_walls_removed' = 0 /\ cell' = 0
  /\ UNCHANGED <<config, row, out, exit_code, last_row_calls, rows_made, draws>>

\* KeyboardInterrupt raised before the loop or inside the except clause:
\* nothing catches it
UncaughtInterrupt ==
  /\ pc \in StartPcs \cup HandlerPcs
  /\ Exit(130)

\* print '\r', then row.process_last_row() is called
HandlerStart ==
  /\ pc = "handler"
  /\ out' = out \o <<cr>>
  /\ last_row_calls' = last_row_calls + 1
  /\ i' = 1
  /\ pc' = "process_last_row"
  /\ UNCHANGED <<config, row, new_row, merge_locals, down_locals, exit_code, cancelled_at,
                 rows_made, draws>>

\* process_last_row that stops one pair short
ProcessLastRowPair_StopsEarly ==
  /\ pc = "process_last_row"
  /\ IF i >= Len(row.cells) - 1
     THEN /\ pc' = "final_middle_third"
          /\ i' = 0
          /\ UNCHANGED <<config, row, new_row, merge_locals, down_locals, out, run_state>>
     ELSE LET cell_set == row.cells[i].set_key
              next_cell_set == row.cells[i + 1].set_key
          IN IF cell_set \notin Keys(row) \/ next_cell_set \notin Keys(row)
             THEN Raise
             ELSE IF (i + 1) \notin row.sets[cell_set]
                  THEN IF "r" \notin row.cells[i].walls
                       THEN Raise
                       ELSE LET r1 == RemoveWall(row, i, "r")
                            IN IF r1.sets[cell_set] = {}
                               THEN Raise
                               ELSE \E c \in r1.sets[cell_set] :
                                      /\ row' = DelSet(merge(r1, cell_set, next_cell_set, c),
                                                       next_cell_set)
                                      /\ i' = i + 1
                                      /\ UNCHANGED <<config, pc, new_row, merge_locals,
                                                     down_locals, out, run_state>>
                  ELSE /\ i' = i + 1
                       /\ UNCHANGED <<config, pc, row, new_row, merge_locals, down_locals,
                                      out, run_state>>

\* process_last_row with the random draw of process_right_walls
ProcessLastRowPair_MayDecline ==
  /\ pc = "process_last_row"
  /\ IF i >= Len(row.cells)
     THEN /\ pc' = "final_middle_third"
          /\ i' = 0
          /\ UNCHANGED <<config, row, new_row, merge_locals, down_locals, out, run_state>>
     ELSE LET cell_set == row.cells[i].set_key
              next_cell_set == row.cells[i + 1].set_key
          IN IF cell_set \notin Keys(row) \/ next_cell_set \notin Keys(row)
             THEN Raise
             ELSE IF (i + 1) \notin row.sets[cell_set]
                  THEN \E join \in BOOLEAN :
                       IF ~join
                       THEN /\ i' = i + 1
                            /\ UNCHANGED <<config, pc, row, new_row, merge_locals,
                                           down_locals, out, run_state>>
                       ELSE IF "r" \notin row.cells[i].walls
                       THEN Raise
                       ELSE LET r1 == RemoveWall(row, i, "r")
                            IN IF r1.sets[cell_set] = {}
                               THEN Raise
                               ELSE \E c \in r1.sets[cell_set] :
                                      /\ row' = DelSet(merge(r1, cell_set, next_cell_set, c),
                                                       next_cell_set)
                                      /\ i' = i + 1
                                      /\ UNCHANGED <<config, pc, new_row, merge_locals,
                                                     down_locals, out, run_state>>
                  ELSE /\ i' = i + 1
                       /\ UNCHANGED <<config, pc, row, new_row, merge_locals, down_locals,
                                      out, run_state>>

\* process_last_row without the test "next_cell not in cell_set"
ProcessLastRowPair_NoTest ==
  /\ pc = "process_last_row"
  /\ IF i >= Len(row.cells)
     THEN /\ pc' = "final_middle_third"
          /\ i' = 0
          /\ UNCHANGED <<config, row, new_row, merge_locals, down_locals, out, run_state>>
     ELSE LET cell_set == row.cells[i].set_key
              next_cell_set == row.cells[i + 1].set_key
          IN IF cell_set \notin Keys(row) \/ next_cell_set \notin Keys(row)
             THEN Raise
             ELSE IF TRUE
                  THEN IF "r" \notin row.cells[i].walls
                       THEN Raise
                       ELSE LET r1 == RemoveWall(row, i, "r")
                            IN IF r1.sets[cell_set] = {}
                               THEN Raise
                               ELSE \E c \in r1.sets[cell_set] :
                                      /\ row' = DelSet(merge(r1, cell_set, next_cell_set, c),
                                                       next_cell_set)
                                      /\ i' = i + 1
                                      /\ UNCHANGED <<config, pc, new_row, merge_locals,
                                                     down_locals, out, run_state>>
                  ELSE /\ i' = i + 1
                       /\ UNCHANGED <<config, pc, row, new_row, merge_locals, down_locals,
                                      out, run_state>>

\* process_last_row that removes the wall of next_cell instead of cell
ProcessLastRowPair_NextCell ==
  /\ pc = "process_last_row"
  /\ IF i >= Len(row.cells)
     THEN /\ pc' = "final_middle_third"
          /\ i' = 0
          /\ UNCHANGED <<config, row, new_row, merge_locals, down_locals, out, run_state>>
     ELSE LET cell_set == row.cells[i].set_key
              next_cell_set == row.cells[i + 1].set_key
          IN IF cell_set \notin Keys(row) \/ next_cell_set \notin Keys(row)
             THEN Raise
             ELSE IF (i + 1) \notin row.sets[cell_set]
                  THEN IF "r" \notin row.cells[i + 1].walls
                       THEN Raise
                       ELSE LET r1 == RemoveWall(row, i + 1, "r")
                            IN IF r1.sets[cell_set] = {}
                               THEN Raise
                               ELSE \E c \in r1.sets[cell_set] :
                                      /\ row' = DelSet(merge(r1, cell_set, next_cell_set, c),
                                                       next_cell_set)
                                      /\ i' = i + 1
                                      /\ UNCHANGED <<config, pc, new_row, merge_locals,
                                                     down_locals, out, run_state>>
                  ELSE /\ i' = i + 1
                       /\ UNCHANGED <<config, pc, row, new_row, merge_locals, down_locals,
                                      out, run_state>>

\* one pair of process_last_row
ProcessLastRowPair ==
  /\ pc = "process_last_row"
  /\ IF i >= Len(row.cells)
     THEN /\ pc' = "final_middle_third"
          /\ i' = 0
          /\ UNCHANGED <<config, row, new_row, merge_locals, down_locals, out, run_state>>
     ELSE LET cell_set == row.cells[i].set_key
              next_cell_set == row.cells[i + 1].set_key
          IN IF cell_set \notin Keys(row) \/ next_cell_set \notin Keys(row)
             THEN Raise
             ELSE IF (i + 1) \notin row.sets[cell_set]
                  THEN IF "r" \notin row.cells[i].walls
                       THEN Raise
                       ELSE LET r1 == RemoveWall(row, i, "r")
                            IN IF r1.sets[cell_set] = {}
                               THEN Raise
                               ELSE \E c \in r1.sets[cell_set] :
                                      /\ row' = DelSet(merge(r1, cell_set, next_cell_set, c),
                                                       next_cell_set)
                                      /\ i' = i + 1
                                      /\ UNCHANGED <<config, pc, new_row, merge_locals,
                                                     down_locals, out, run_state>>
                  ELSE /\ i' = i + 1
                       /\ UNCHANGED <<config, pc, row, new_row, merge_locals, down_locals,
                                      out, run_state>>

PrintFinalMiddleThird ==
  /\ pc = "final_middle_third"
  /\ out' = out \o print_middle_third(row, verbose)
  /\ pc' = "print_very_last_third"
  /\ UNCHANGED <<config, row, new_row, i, merge_locals, down_locals, run_state>>

PrintVeryLastThird ==
  /\ pc = "print_very_last_third"
  /\ out' = out \o print_very_last_third(num_cells)
  /\ pc' = "sys_exit"
  /\ UNCHANGED <<config, row, new_row, i, merge_locals, down_locals, run_state>>

SysExit ==
  /\ pc = "sys_exit"
  /\ Exit(0)

Next ==
  \/ FromNumCells
  \/ PrintVeryFirstThird
  \/ EnterTry
  \/ ProcessRightWallsPair
  \/ MergePopStep
  \/ MergeAddStep
  \/ MergeUpdateStep
  \/ MergeKeyStep
  \/ MergeClearStep
  \/ DelSetStep
  \/ ProcessDownWallsNextSet
  \/ ProcessDownWallsPop
  \/ ProcessDownWallsWall
  \/ ProcessDownWallsUpdate
  \/ PrintMiddleThird
  \/ PrintLastThird
  \/ FromPrevRowStep
  \/ FromPrevRowReturn
  \/ Sleep
  \/ KeyboardInterrupt
  \/ UncaughtInterrupt
  \/ HandlerStart
  \/ ProcessLastRowPair
  \/ PrintFinalMiddleThird
  \/ PrintVeryLastThird
  \/ SysExit

Spec == Init /\ [][Next]_vars

\* ---------------------------------------------------------------- the verbose band alone
\* print_middle_third(True) called on a row of one cell, for every set
\* identifier up to MaxSetKey and every state of the cell's walls
InitMiddle ==
  /\ num_cells = 1
  /\ verbose = TRUE
  /\ pc = "print_middle_third"
  /\ \E key \in 0..MaxSetKey, walls \in SUBSET {"r", "d"} :
       row = NewSet([EmptyRow EXCEPT !.cells = <<[set_key |-> key, walls |-> walls]>>],
                    key, 1)
  /\ new_row = EmptyRow
  /\ i = 0
  /\ a = 0 /\ b = 0 /\ k = 0 /\ a_cell = 0 /\ a_set_key = 0 /\ todo = {}
  /\ si = 0 /\ tmp_set = {} /\ down_walls_removed = 0 /\ cell = 0
  /\ out = << >>
  /\ exit_code = -1
  /\ cancelled_at = "none"
  /\ last_row_calls = 0
  /\ rows_made = 0
  /\ drew_yes = FALSE
  /\ drew_no = FALSE

NextMiddle == PrintMiddleThird

SpecMiddle == InitMiddle /\ [][NextMiddle]_vars

\* ---------------------------------------------------------------- reading the rows
Cols(r) == 1..Len(r.cells)

\* the partition map of r is a true partition of r's cells
IsPartition(r) ==
  /\ \A c \in Cols(r) : Cardinality({key \in Keys(r) : c \in r.sets[key]}) = 1
  /\ \A key \in Keys(r) : r.sets[key] # {} /\ r.sets[key] \subseteq Cols(r)
  /\ \A k1, k2 \in Keys(r) : k1 # k2 => r.sets[k1] \cap r.sets[k2] = {}
  /\ UNION {r.sets[key] : key \in Keys(r)} = Cols(r)

\* a row operation has just completed on row (from_num_cells, process_right_walls,
\* process_down_walls, from_prev_row once assigned, process_last_row)
AfterRowOp ==
  \/ pc \in {"print_very_first_third", "print_middle_third", "sleep", "final_middle_third"}
  \/ pc = "process_down_walls" /\ si = 1

\* from_prev_row has built all of its row and is about to return it
FromPrevRowDone == pc = "from_prev_row" /\ i > Len(row.cells)

\* ---------------------------------------------------------------- reading the output
\* the complete lines of the output, without their newline
Lines(s) ==
  LET nls == {j \in 1..Len(s) : s[j] = nl}
      pos(n) == CHOOSE j \in nls : Cardinality({x \in nls : x <= j}) = n
      start(n) == IF n = 1 THEN 1 ELSE pos(n - 1) + 1
  IN [n \in 1..Cardinality(nls) |-> SubSeq(s, start(n), pos(n) - 1)]

\* what the terminal shows of a line that starts with a carriage return
StripCr(line) == IF Len(line) > 0 /\ line[1] = cr THEN Tail(line) ELSE line

\* number of maze rows in a complete output: top, (middle, junction)*, middle, bottom
MazeRows(L) == (Len(L) - 1) \div 2

\* the passage between cell (r, c) and (r, c + 1), read off the r-th middle band
RightOpen(L, r, c) == StripCr(L[2 * r])[4 * c + 1] = sp

\* the passage between cell (r, c) and (r + 1, c), read off the r-th junction band
DownOpen(L, r, c) == L[2 * r + 1][4 * c - 2] = sp

MazeCells(L, n) == (1..MazeRows(L)) \X (1..n)

MazeEdges(L, n) ==
  {{<<r, c>>, <<r, c + 1>>} : <<r, c>> \in {x \in MazeCells(L, n) : x[2] < n /\ RightOpen(L, x[1], x[2])}}
  \cup
  {{<<r, c>>, <<r + 1, c>>} : <<r, c>> \in {x \in MazeCells(L, n) : x[1] < MazeRows(L) /\ DownOpen(L, x[1], x[2])}}

RECURSIVE Reach(_, _)
Reach(S, E) ==
  LET S2 == S \cup {x \in UNION E : \E e \in E : x \in e /\ e \cap S # {}}
  IN IF S2 = S THEN S ELSE Reach(S2, E)

\* exactly one path between any two cells: connected and without a cycle
PerfectMaze(L, n) ==
  /\ Reach({<<1, 1>>}, MazeEdges(L, n)) = MazeCells(L, n)
  /\ Cardinality(MazeEdges(L, n)) = Cardinality(MazeCells(L, n)) - 1

CancelledAtBoundary == cancelled_at = "boundary"

\* ---------------------------------------------------------------- claims
\* C1: in every run, after each completed row operation the row's partition map
\* is a true partition of the row's cells (every cell in exactly one class,
\* classes disjoint, union all cells, no class empty).
C1_PartitionAfterEveryOp ==
  /\ AfterRowOp => IsPartition(row)
  /\ FromPrevRowDone => IsPartition(new_row)

\* C2: a run cancelled at a generation-step boundary prints a perfect maze: the
\* cells of all the rows, joined by the removed RIGHT and DOWN walls, form a
\* connected graph without a cycle.
C2_PerfectMaze ==
  (pc = "exited" /\ exit_code = 0 /\ CancelledAtBoundary)
    => PerfectMaze(Lines(out), num_cells)

C2_Witness ==
  /\ pc = "exited" /\ exit_code = 0 /\ CancelledAtBoundary
  /\ num_cells = 3 /\ rows_made = 2
  /\ LET L == Lines(out)
     IN /\ MazeRows(L) = 3
        /\ \E c \in 1..2 : ~RightOpen(L, 2, c)
        /\ \E c \in 1..3 : ~DownOpen(L, 1, c)
        /\ \E c \in 1..2 : RightOpen(L, 1, c)
        /\ \E c \in 1..2 : ~RightOpen(L, 3, c)

\* C3: when process_down_walls has completed, every class of the row has a
\* member whose DOWN wall is removed.
C3_EveryClassGoesDown ==
  pc = "print_middle_third"
    => \A key \in Keys(row) : \E c \in row.sets[key] : "d" \notin row.cells[c].walls

C3_Witness ==
  /\ pc = "print_middle_third"
  /\ rows_made >= 1
  /\ \E key \in Keys(row) :
       /\ Cardinality(row.sets[key]) >= 2
       /\ \E c \in row.sets[key] : "d" \in row.cells[c].walls
  /\ \E key \in Keys(row) : Cardinality(row.sets[key]) = 1

\* C4: process_right_walls removes a RIGHT wall only from the left cell of the
\* pair it is examining and only when the right neighbour is then in another
\* class; the removal is followed by the merge of the two classes, and when the
\* pair is done both cells are in the left class and the right cell's former
\* key is gone from the map.
RightWallPcs == {"process_right_walls", "merge_pop", "merge_add", "merge_update",
                 "merge_keys", "merge_clear", "del_set"}

C4_Step ==
  /\ \A c \in Cols(row) :
       (pc \in RightWallPcs /\ "r" \in row.cells[c].walls /\ "r" \notin row'.cells[c].walls)
         => /\ pc = "process_right_walls" /\ c = i /\ c < num_cells
            /\ ~ \E key \in Keys(row) : {c, c + 1} \subseteq row.sets[key]
            /\ row.cells[c].set_key # row.cells[c + 1].set_key
            /\ pc' = "merge_pop"
            /\ a' = row.cells[c].set_key /\ b' = row.cells[c + 1].set_key /\ k' = b'
  /\ (pc = "del_set" /\ pc' = "process_right_walls")
         => /\ k \notin Keys(row')
            /\ {i, i + 1} \subseteq row'.sets[a]
            /\ row'.cells[i].set_key = a /\ row'.cells[i + 1].set_key = a

C4_NoJoinInsideAClass == [][C4_Step]_vars

C4_Witness ==
  /\ pc = "process_down_walls" /\ si = 1
  /\ rows_made >= 1
  /\ \E c \in 1..(num_cells - 1) :
       "r" \in row.cells[c].walls /\ row.cells[c].set_key = row.cells[c + 1].set_key
  /\ \E c \in 1..(num_cells - 1) : "r" \notin row.cells[c].walls

\* C5: when process_last_row has completed on the row of a run cancelled at a
\* generation-step boundary, the partition has exactly one class and it holds
\* all num_cells cells.
C5_OneClassAtTheEnd ==
  (pc = "final_middle_third" /\ CancelledAtBoundary)
    => /\ Cardinality(Keys(row)) = 1
       /\ \A key \in Keys(row) : row.sets[key] = 1..num_cells

C5_Witness ==
  /\ pc = "final_middle_third" /\ CancelledAtBoundary
  /\ num_cells >= 3 /\ rows_made >= 1
  /\ \E c \in 1..(num_cells - 1) : "r" \in row.cells[c].walls
  /\ \E c \in 1..(num_cells - 1) : "r" \notin row.cells[c].walls

\* C6: whenever the KeyboardInterrupt arrives, the program ends by the
\* finalization sequence: process_last_row invoked exactly once, then the final
\* middle band, then the bottom border, then exit status 0.
EndsWithFinalBands(L) ==
  /\ Len(L) >= 3
  /\ L[Len(L)] \o <<nl>> = print_very_last_third(num_cells)
  /\ Len(L[Len(L) - 1]) = 4 * num_cells + 2
  /\ L[Len(L) - 1][1] = cr
  /\ L[Len(L) - 1][2] = v

C6_AlwaysFinalizes ==
  pc = "exited" => /\ exit_code = 0
                   /\ last_row_calls = 1
                   /\ EndsWithFinalBands(Lines(out))

\* C7: the except clause (process_last_row) is never entered while a row
\* operation or the rendering of a row has started and not finished.
C7_CancelOnlyBetweenSteps ==
  pc \in HandlerPcs => cancelled_at # "mid_operation"

\* C8: a set_key that from_prev_row assigns afresh (the cell above has its DOWN
\* wall) is, when assigned, a key of neither the previous row's map nor the
\* new row's map so far, and every smaller non-negative integer is such a key.
C8_Step ==
  (pc = "from_prev_row" /\ pc' = "from_prev_row" /\ i <= Len(row.cells) /\ i' = i + 1
     /\ "d" \in row.cells[i].walls)
    => LET key == new_row'.cells[i].set_key
       IN /\ key >= 0
          /\ key \notin Keys(row)
          /\ key \notin Keys(new_row)
          /\ \A j \in 0..(key - 1) : j \in Keys(row) \cup Keys(new_row)

C8_FreshKeyIsLowestUnused == [][C8_Step]_vars

C8_Witness ==
  /\ pc = "from_prev_row"
  /\ rows_made >= 1
  /\ \E c \in 1..Len(new_row.cells) :
       /\ "d" \in row.cells[c].walls
       /\ new_row.cells[c].set_key > 0
       /\ new_row.cells[c].set_key # c - 1
       /\ new_row.cells[c].set_key < Cardinality(Keys(row))

\* C9: the row from_prev_row returns has the length of the previous row; a cell
\* under an open DOWN wall has the set_key of the cell above and shares its
\* class with exactly the other cells that inherited that key; a cell under a
\* standing DOWN wall is alone in its class; every new cell has both walls.
C9_CarryOver ==
  FromPrevRowDone =>
    /\ Len(new_row.cells) = Len(row.cells)
    /\ Len(new_row.cells) = num_cells
    /\ \A c \in Cols(new_row) :
         /\ new_row.cells[c].walls = {"r", "d"}
         /\ new_row.cells[c].set_key \in Keys(new_row)
         /\ IF "d" \notin row.cells[c].walls
            THEN /\ new_row.cells[c].set_key = row.cells[c].set_key
                 /\ new_row.sets[new_row.cells[c].set_key] =
                      {x \in Cols(row) : /\ "d" \notin row.cells[x].walls
                                         /\ row.cells[x].set_key = row.cells[c].set_key}
            ELSE new_row.sets[new_row.cells[c].set_key] = {c}

C9_Witness ==
  /\ FromPrevRowDone
  /\ rows_made >= 1
  /\ \E key \in Keys(new_row) : Cardinality(new_row.sets[key]) >= 2
  /\ \E c \in Cols(row) : "d" \in row.cells[c].walls

\* C10: after each completed row operation, in any run, every cell stored in a
\* class of the partition map carries that class's key as its set_key.
KeysMatch(r) == \A key \in Keys(r) : \A c \in r.sets[key] : r.cells[c].set_key = key

C10_SetKeyIsClassKey ==
  /\ AfterRowOp => KeysMatch(row)
  /\ FromPrevRowDone => KeysMatch(new_row)

\* ---------------------------------------------------------------- merge (C11)
\* what merge(a, b) must have done to the row: before and after are the row
\* around the call, a and b the keys of the two classes
MergedInto(before, after, ka, kb) ==
  /\ \A x \in before.sets[kb] : after.cells[x].set_key = ka
  /\ after.sets[kb] = {}
  /\ after.sets[ka] = before.sets[ka] \cup before.sets[kb]
  /\ \A x \in before.sets[ka] : after.cells[x].set_key = before.cells[x].set_key

\* the pair process_last_row is about to examine lies in two classes
LastRowPairSplit ==
  /\ pc = "process_last_row"
  /\ CancelledAtBoundary
  /\ i < Len(row.cells)
  /\ (i + 1) \notin row.sets[row.cells[i].set_key]

\* C11: for two distinct non-empty classes a and b of a row, after merge(a, b)
\* every cell formerly in b carries a's identifier, b is empty, a holds exactly
\* the former members of a and of b, and the former members of a keep their
\* identifier. Checked on every call of merge the program makes, whichever
\* member a.pop() returns, and on the row process_right_walls holds when its
\* call of merge has returned.
C11_MergeJoinsBIntoA ==
  /\ (pc = "merge_pop" /\ a # b /\ row.sets[a] # {} /\ row.sets[b] # {}) =>
       \A c \in row.sets[a] : MergedInto(row, merge(row, a, b, c), a, b)
  /\ LastRowPairSplit =>
       LET ka == row.cells[i].set_key
           kb == row.cells[i + 1].set_key
           r1 == RemoveWall(row, i, "r")
       IN \A c \in row.sets[ka] : MergedInto(r1, merge(r1, ka, kb, c), ka, kb)
  /\ pc = "del_set" =>
       /\ row.sets[b] = {}
       /\ {i, i + 1} \subseteq row.sets[a]
       /\ \A x \in row.sets[a] : row.cells[x].set_key = a

C11_Witness ==
  /\ pc = "merge_pop"
  /\ a # b
  /\ Cardinality(row.sets[a]) >= 2
  /\ Cardinality(row.sets[b]) >= 2

\* ---------------------------------------------------------------- bands (C12)
\* a middle band of a streamed row, the middle band of the finalized row (it
\* follows the carriage return the except clause prints), a junction band
IsMiddleBand(line) == Len(line) >= 1 /\ line[1] = v
IsFinalMiddleBand(line) == Len(line) >= 2 /\ line[1] = cr /\ line[2] = v
IsJunctionBand(line) == Len(line) >= 1 /\ line[1] = vr

\* top border, then middle band and junction band in turn, then the final
\* middle band, then the bottom border
BandSequence(L) ==
  /\ Len(L) >= 3
  /\ Len(L) % 2 = 1
  /\ L[1] \o <<nl>> = print_very_first_third(num_cells)
  /\ L[Len(L)] \o <<nl>> = print_very_last_third(num_cells)
  /\ IsFinalMiddleBand(L[Len(L) - 1])
  /\ \A j \in 2..(Len(L) - 2) :
       IF j % 2 = 0 THEN IsMiddleBand(L[j]) ELSE IsJunctionBand(L[j])

\* C12: a run that is cancelled and ends through sys.exit(0) has printed the top
\* border once and first, then for each streamed row its middle band once
\* immediately followed by its junction band once, then one final middle band,
\* then the bottom border once and last.
C12_BandSequence ==
  (pc = "exited" /\ exit_code = 0) => BandSequence(Lines(out))

\* ---------------------------------------------------------------- last row (C13)
\* C13 as stated: after process_last_row no RIGHT wall remains between two
\* horizontally adjacent cells of the final row (runs cancelled at a step
\* boundary).
C13_NoWallInLastRow ==
  (pc = "final_middle_third" /\ CancelledAtBoundary) =>
    \A c \in 1..(num_cells - 1) : "r" \notin row.cells[c].walls

\* process_last_row has examined the pair (i, i + 1) and gone on
C13_Step ==
  (pc = "process_last_row" /\ pc' = "process_last_row" /\ i' = i + 1) =>
    LET same_class == (i + 1) \in row.sets[row.cells[i].set_key]
    IN /\ "r" \in row'.cells[i].walls => same_class
       /\ (CancelledAtBoundary /\ same_class) => "r" \in row'.cells[i].walls
       /\ \A c \in Cols(row) \ {i} : row'.cells[c].walls = row.cells[c].walls

\* C13, amended: after process_last_row a RIGHT wall remains between two
\* horizontally adjacent cells of the final row only where the two cells were
\* already in one class when process_last_row examined the pair (after a
\* cancellation at a step boundary: exactly there); between two cells of
\* different classes none remains.
C13_WallsLeftAreInsideAClass == [][C13_Step]_vars

C13_Witness ==
  /\ pc = "final_middle_third" /\ CancelledAtBoundary
  /\ num_cells = 4 /\ rows_made = 2
  /\ "r" \in row.cells[1].walls
  /\ "r" \notin row.cells[2].walls
  /\ "r" \in row.cells[3].walls

\* ---------------------------------------------------------------- verbose band (C14)
\* C14: in verbose mode print_middle_third prints exactly 4 characters for
\* every cell, for every set identifier from 0 to 999 and for both states of
\* the cell's RIGHT wall: the band is the left border, 4 characters per cell
\* and the newline. Checked under SpecMiddle.
C14_FourCharactersPerCell ==
  (pc = "print_last_third" /\ verbose /\ \A c \in Cols(row) : row.cells[c].set_key <= 999) =>
    Len(out) = 1 + 4 * Len(row.cells) + 1

\* ---------------------------------------------------------------- fixed random sources (C15, C16)
\* process_right_walls has returned and process_down_walls has not started
AfterRightWalls == pc = "process_down_walls" /\ si = 1

\* the initial row of 4 cells after process_right_walls, every draw of the
\* random source having said merge/open
AllDrawsOpenedFirstRow ==
  /\ num_cells = 4
  /\ ~drew_no
  /\ rows_made = 0
  /\ AfterRightWalls

OneClassOfAll(r) == \E key \in Keys(r) : Keys(r) = {key} /\ r.sets[key] = Cols(r)

\* C15 as stated: with N = 4 and a random source that always chooses
\* merge/open, after process_right_walls on the initial row all 4 cells are in
\* one class and all RIGHT walls, one per cell, are open.
C15_AllRightWallsOpen ==
  AllDrawsOpenedFirstRow =>
    /\ OneClassOfAll(row)
    /\ \A c \in Cols(row) : "r" \notin row.cells[c].walls

\* C15, amended: with N = 4 and a random source that always chooses merge/open,
\* after process_right_walls on the initial row all 4 cells are in one class
\* (class 0) and the RIGHT walls of the first 3 cells, those between adjacent
\* cells, are open; the RIGHT wall of the rightmost cell stays.
C15_AllJoinedInnerWallsOpen ==
  AllDrawsOpenedFirstRow =>
    /\ OneClassOfAll(row)
    /\ Keys(row) = {0}
    /\ \A c \in Cols(row) : row.cells[c].set_key = 0
    /\ \A c \in 1..3 : "r" \notin row.cells[c].walls
    /\ "r" \in row.cells[4].walls

C15_Witness ==
  /\ AllDrawsOpenedFirstRow
  /\ drew_yes
  /\ Len(row.cells) = 4

\* no draw of the random source has said merge/open so far, 4 columns
NoDrawOpened == num_cells = 4 /\ ~drew_yes

\* classes 0..3, each holding the one cell of its column
FourSingletons(r) ==
  /\ Len(r.cells) = 4
  /\ Keys(r) = 0..3
  /\ \A c \in 1..4 : r.cells[c].set_key = c - 1 /\ r.sets[c - 1] = {c}

\* C16: with N = 4 and a random source that always declines,
\* process_right_walls leaves the 4 singleton classes with every RIGHT wall
\* present, process_down_walls then removes the DOWN wall of the one cell of
\* each class, that is of all 4 cells, and the row from_prev_row builds from it
\* has again classes 0..3 as singletons with all walls present; the same for
\* every later row.
C16_DeclinedDrawsKeepSingletons ==
  NoDrawOpened =>
    /\ AfterRightWalls =>
         /\ FourSingletons(row)
         /\ \A c \in 1..4 : row.cells[c].walls = {"r", "d"}
    /\ pc \in {"print_middle_third", "print_last_third"} =>
         /\ FourSingletons(row)
         /\ \A c \in 1..4 : row.cells[c].walls = {"r"}
    /\ FromPrevRowDone => FourSingletons(new_row)
    /\ pc \in BoundaryPcs =>
         /\ FourSingletons(row)
         /\ \A c \in 1..4 : row.cells[c].walls = {"r", "d"}

C16_Witness ==
  /\ NoDrawOpened
  /\ drew_no
  /\ rows_made = 1
  /\ pc = "print_last_third"
  /\ \A c \in 1..4 : "d" \notin row.cells[c].walls

\* ---------------------------------------------------------------- classes and paths (C17)
\* the passages of the maze built so far, at a step boundary: those of the
\* streamed rows, read off the printed bands (the junction band under row r
\* leads into row r + 1), and those of the current row, which is row
\* rows_made + 1
PassagesSoFar(L) ==
  {{<<r, c>>, <<r, c + 1>>} :
     <<r, c>> \in {x \in (1..rows_made) \X (1..(num_cells - 1)) : RightOpen(L, x[1], x[2])}}
  \cup
  {{<<r, c>>, <<r + 1, c>>} :
     <<r, c>> \in {x \in (1..rows_made) \X (1..num_cells) : DownOpen(L, x[1], x[2])}}
  \cup
  {{<<rows_made + 1, c>>, <<rows_made + 1, c + 1>>} :
     c \in {x \in 1..(num_cells - 1) : "r" \notin row.cells[x].walls}}

SameClass(r, c1, c2) == \E key \in Keys(r) : {c1, c2} \subseteq r.sets[key]

\* C17: at every generation-step boundary two cells of the current row are in
\* the same partition class if and only if a path of open passages through
\* the current and the earlier rows joins them.
C17_ClassIsConnectivity ==
  pc \in BoundaryPcs =>
    LET E == PassagesSoFar(Lines(out))
    IN \A c1 \in Cols(row) :
         LET reached == Reach({<<rows_made + 1, c1>>}, E)
         IN \A c2 \in Cols(row) :
              SameClass(row, c1, c2) <=> <<rows_made + 1, c2>> \in reached

C17_Witness ==
  /\ pc = "sleep"
  /\ rows_made = 2
  /\ num_cells = 4
  /\ SameClass(row, 1, 3)
  /\ ~SameClass(row, 1, 2)
  /\ ~SameClass(row, 3, 4)

\* ---------------------------------------------------------------- key range (C18)
KeysInRange(r) ==
  /\ Keys(r) \subseteq 0..(num_cells - 1)
  /\ \A c \in Cols(r) : r.cells[c].set_key \in 0..(num_cells - 1)

\* from_prev_row is at a column whose cell above kept its DOWN wall: the
\* free-key search runs
FreeKeySearch ==
  /\ pc = "from_prev_row"
  /\ i <= Len(row.cells)
  /\ "d" \in row.cells[i].walls

\* C18: in any run the free-key search of from_prev_row stops at a key smaller
\* than N (one increment per key passed, so fewer than N increments), every
\* set_key of every row lies in 0..N-1, and the keys in use, those of the
\* previous row together with those of the row being built, are never more
\* than N.
C18_KeysBelowN ==
  /\ KeysInRange(row)
  /\ KeysInRange(new_row)
  /\ Cardinality(Keys(row) \cup Keys(new_row)) <= num_cells
  /\ FreeKeySearch => LowUnusedKey(Keys(row) \cup Keys(new_row), 0) < num_cells

C18_Witness ==
  /\ FreeKeySearch
  /\ num_cells = 4
  /\ LowUnusedKey(Keys(row) \cup Keys(new_row), 0) = 3
  /\ Cardinality(Keys(row)) = 2

\* ---------------------------------------------------------------- run-time failures (C19)
\* C19: in a run that is not cancelled or is cancelled at a generation-step
\* boundary no operation fails: the program never ends on an exception other
\* than KeyboardInterrupt (a wall removed that is absent, a class key missing
\* from the map, a pop from an empty class), and the key the free-key search
\* of from_prev_row ends on is an unused one, as its assertion demands.
C19_NoFailureAtBoundary ==
  /\ cancelled_at \in {"none", "boundary"} => exit_code # 1
  /\ FreeKeySearch =>
       LowUnusedKey(Keys(row) \cup Keys(new_row), 0) \notin Keys(row) \cup Keys(new_row)

C19_Witness ==
  /\ pc = "exited"
  /\ exit_code = 0
  /\ CancelledAtBoundary
  /\ num_cells = 4
  /\ rows_made = 2
  /\ drew_yes
  /\ drew_no

\* ---------------------------------------------------------------- right border (C20)
\* the cell of the last column, once the row has it
RightmostHasWall(r) == Len(r.cells) = num_cells => "r" \in r.cells[num_cells].walls

\* a middle band has just been printed
MiddleBandPrinted == pc \in {"print_last_third", "print_very_last_third"}

\* C20: in every reachable state the rightmost cell of the row, and of the row
\* from_prev_row is building, has its RIGHT wall, and every middle band ends
\* with the vertical wall of the right border.
C20_RightBorderStays ==
  /\ RightmostHasWall(row)
  /\ RightmostHasWall(new_row)
  /\ MiddleBandPrinted => /\ out[Len(out)] = nl
                          /\ out[Len(out) - 1] = v

C20_Witness ==
  /\ pc = "print_very_last_third"
  /\ num_cells = 4
  /\ rows_made >= 1
  /\ \A c \in 1..3 : "r" \notin row.cells[c].walls
  /\ "r" \in row.cells[4].walls

====
